---- MODULE Spec2Model ----
(***************************************************************************)
(* Model of src/src/api/database.py: the engine chosen from DATABASE_URL,  *)
(* the session helpers (get_db, check_db_connection), the schema helpers   *)
(* (init_db, drop_db, reset_db) and the pool monitor (get_pool_status,     *)
(* log_pool_status).  SQLAlchemy itself is the environment: its calls may  *)
(* succeed or raise, and its QueuePool counters follow the library.        *)
(***************************************************************************)
EXTENDS Integers, Sequences, FiniteSets, TLC

\* ------------------------------------------------------------------ bounds
MaxUrlLen == 3
MaxPoolSize == 2
MaxOverflowCfg == 1
NumClients == 2
NumTables == 2

\* ------------------------------------------------- configuration defaults
DB_POOL_SIZE_DEFAULT == 20
DB_MAX_OVERFLOW_DEFAULT == 10
DB_POOL_TIMEOUT_DEFAULT == 30
DB_POOL_RECYCLE_DEFAULT == 3600
SUPABASE_CONNECT_TIMEOUT == 10

\* A URL is a string; it is modelled as a sequence of fragments, so that the
\* substring tests of the source are real substring tests and the markers
\* overlap as they do in the source ("pooler.supabase.com" holds "supabase",
\* "postgresql" holds "postgres").
Fragments == {"pooler.", "supabase", ".com", "postgres", "ql", "sqlite"}

RECURSIVE SeqsUpTo(_, _)
SeqsUpTo(S, n) ==
    IF n = 0 THEN {<< >>}
    ELSE LET shorter == SeqsUpTo(S, n - 1)
         IN  shorter \cup {Append(s, x) : s \in {t \in shorter : Len(t) = n - 1}, x \in S}

Urls == SeqsUpTo(Fragments, MaxUrlLen)

MARKER_SUPABASE == <<"supabase">>
MARKER_POOLER == <<"pooler.", "supabase", ".com">>
MARKER_POSTGRESQL == <<"postgres", "ql">>
DEFAULT_URL == <<"sqlite">>

\* Python's `m in s` on strings.
Contains(s, m) ==
    \E i \in 1..(Len(s) - Len(m) + 1) : SubSeq(s, i, i + Len(m) - 1) = m

\* The four pool tunables read from the environment.
DefaultEnv ==
    [pool_size |-> DB_POOL_SIZE_DEFAULT, max_overflow |-> DB_MAX_OVERFLOW_DEFAULT,
     pool_timeout |-> DB_POOL_TIMEOUT_DEFAULT, pool_recycle |-> DB_POOL_RECYCLE_DEFAULT]

SmallEnvs ==
    {[DefaultEnv EXCEPT !.pool_size = s, !.max_overflow = o] :
        s \in 1..MaxPoolSize, o \in 0..MaxOverflowCfg}

\* The keyword arguments of the three create_engine calls.  kwargs is the set
\* of keywords passed; a keyword that is not passed keeps a neutral value.
SupabaseEngine(u, e) ==
    [branch |-> "supabase", url |-> u,
     kwargs |-> {"poolclass", "pool_size", "max_overflow", "pool_timeout",
                 "pool_recycle", "pool_pre_ping", "connect_args", "echo"},
     poolclass |-> "QueuePool",
     pool_size |-> e.pool_size, max_overflow |-> e.max_overflow,
     pool_timeout |-> e.pool_timeout, pool_recycle |-> e.pool_recycle,
     pool_pre_ping |-> TRUE,
     connect_args |-> {<<"sslmode", "require">>,
                       <<"connect_timeout", ToString(SUPABASE_CONNECT_TIMEOUT)>>}]

PostgresEngine(u, e) ==
    [branch |-> "postgresql", url |-> u,
     kwargs |-> {"poolclass", "pool_size", "max_overflow", "pool_timeout",
                 "pool_recycle", "pool_pre_ping"},
     poolclass |-> "QueuePool",
     pool_size |-> e.pool_size, max_overflow |-> e.max_overflow,
     pool_timeout |-> e.pool_timeout, pool_recycle |-> e.pool_recycle,
     pool_pre_ping |-> TRUE,
     connect_args |-> {}]

SqliteEngine(u, e) ==
    [branch |-> "sqlite", url |-> u,
     kwargs |-> {"connect_args", "echo"},
     poolclass |-> "default",
     pool_size |-> 0, max_overflow |-> 0,
     pool_timeout |-> 0, pool_recycle |-> 0,
     pool_pre_ping |-> FALSE,
     connect_args |-> {<<"check_same_thread", "False">>}]

\* The branches tested in the other order: "postgresql" before "supabase".
CreateEnginePostgresFirst(u, e) ==
    IF Contains(u, MARKER_POSTGRESQL)
    THEN PostgresEngine(u, e)
    ELSE IF Contains(u, MARKER_SUPABASE) \/ Contains(u, MARKER_POOLER)
         THEN SupabaseEngine(u, e)
         ELSE SqliteEngine(u, e)

\* The module-level if / elif / else.
CreateEngine(u, e) ==
    IF Contains(u, MARKER_SUPABASE) \/ Contains(u, MARKER_POOLER)
    THEN SupabaseEngine(u, e)
    ELSE IF Contains(u, MARKER_POSTGRESQL)
         THEN PostgresEngine(u, e)
         ELSE SqliteEngine(u, e)

\* Before the module is imported there is no engine.
NoEngine ==
    [branch |-> "none", url |-> << >>, kwargs |-> {}, poolclass |-> "none",
     pool_size |-> 0, max_overflow |-> 0, pool_timeout |-> 0, pool_recycle |-> 0,
     pool_pre_ping |-> FALSE, connect_args |-> {}]

\* The pool classes create_engine can give the engine.  With poolclass passed
\* it is a QueuePool of the configured size.  Without it the library picks:
\* NullPool or (from 2.0) a QueuePool of the library's default size 5/10 for a
\* file database, SingletonThreadPool for an in-memory one.
PoolsOf(eng) ==
    IF eng.poolclass = "QueuePool"
    THEN {[kind |-> "QueuePool", size |-> eng.pool_size, max_overflow |-> eng.max_overflow]}
    ELSE {[kind |-> "NullPool", size |-> 0, max_overflow |-> 0],
          [kind |-> "SingletonThreadPool", size |-> 5, max_overflow |-> 0],
          [kind |-> "QueuePool", size |-> 5, max_overflow |-> 10]}

\* ------------------------------------------------------------------ state
VARIABLES
    url,            \* DATABASE_URL
    env,            \* DB_POOL_SIZE, DB_MAX_OVERFLOW, DB_POOL_TIMEOUT, DB_POOL_RECYCLE
    engine,         \* the arguments the engine was created with (NoEngine before import)
    pool,           \* engine.pool: its class and limits
    importLog,      \* the log line of the branch taken at import
    poolIdle,       \* QueuePool: connections idle in the queue (checkedin())
    poolOverflow,   \* QueuePool: _overflow, which starts at -pool_size
    monPc, monOp, status, monResult, monExc, monLogged,      \* get_pool_status / log_pool_status
    cpc, sess, cexit,                                        \* get_db, one per client
    hpc, hsess, hresult, hraised, hfail, hok, hLogged, orphans,  \* check_db_connection
    registered,     \* Base.metadata: the tables declared against Base
    dbTables,       \* the tables that exist in the database
    populated,      \* the tables that hold rows
    mpc, mop,       \* init_db / drop_db / reset_db: where the call is, and which call
    mlog,           \* the lines the call has logged
    mresult, mraised,   \* how the call ended, and the exception it raised
    thrown,         \* the exception the library raised in the call
    calls, okSteps, \* per library call of this call: times attempted, and succeeded
    preTables,      \* the tables that existed when the call began
    created         \* the tables create_all created in this call

engineVars == <<url, env, engine, pool, importLog>>
poolVars == <<poolIdle, poolOverflow>>
monVars == <<monPc, monOp, status, monResult, monExc, monLogged>>
clientVars == <<cpc, sess, cexit>>
healthVars == <<hpc, hsess, hresult, hraised, hfail, hok, hLogged, orphans>>
dataVars == <<registered, dbTables, populated>>
maintVars == <<mpc, mop, mlog, mresult, mraised, thrown, calls, okSteps, preTables, created>>
schemaVars == <<dataVars, maintVars>>
vars == <<engineVars, poolVars, monVars, clientVars, healthVars, schemaVars>>

Clients == 1..NumClients

\* ------------------------------------------------------- the QueuePool
\* QueuePool._do_get finds a connection when one is idle or the overflow
\* counter is below max_overflow (-1: no limit); the other pools always do.
CanCheckout ==
    \/ pool.kind # "QueuePool"
    \/ poolIdle > 0
    \/ pool.max_overflow = -1
    \/ poolOverflow < pool.max_overflow

\* _do_get: take an idle connection, else count a new one in _overflow.
Checkout ==
    IF pool.kind # "QueuePool" THEN UNCHANGED poolVars
    ELSE IF poolIdle > 0
         THEN poolIdle' = poolIdle - 1 /\ UNCHANGED poolOverflow
         ELSE poolOverflow' = poolOverflow + 1 /\ UNCHANGED poolIdle

\* _do_return_conn: queue the connection, or close it when the queue is full.
Checkin ==
    IF pool.kind # "QueuePool" THEN UNCHANGED poolVars
    ELSE IF poolIdle < pool.size
         THEN poolIdle' = poolIdle + 1 /\ UNCHANGED poolOverflow
         ELSE poolOverflow' = poolOverflow - 1 /\ UNCHANGED poolIdle

\* The counters of QueuePool as the library computes them.
PoolSize == pool.size
PoolCheckedIn == poolIdle
PoolOverflow == IF pool.size # 0 THEN poolOverflow ELSE 0
PoolCheckedOut == pool.size - poolIdle + poolOverflow

\* ------------------------------------------------------- module import
ImportModule ==
    /\ engine.branch = "none"
    /\ engine' = CreateEngine(url, env)
    /\ \E p \in PoolsOf(engine') :
          /\ pool' = p
          /\ poolIdle' = 0
          /\ poolOverflow' = 0 - p.size
    /\ importLog' = CASE engine'.branch = "supabase" -> "info: Using Supabase PostgreSQL"
                      [] engine'.branch = "postgresql" -> "info: Using PostgreSQL"
                      [] OTHER -> "warning: Using SQLite (not recommended for production)"
    /\ UNCHANGED <<url, env, monVars, clientVars, healthVars, schemaVars>>

\* ---------------------------------- get_pool_status / log_pool_status
\* The mapping is built value by value, each a call on the live pool, with no
\* lock held: other threads may check connections out and in between two reads.
EmptyStatus ==
    [pool_size |-> 0, checked_in |-> 0, checked_out |-> 0, overflow |-> 0,
     total_connection |-> 0]

MonCall(op) ==
    /\ engine.branch # "none"
    /\ monPc \in {"idle", "done"}
    /\ monOp' = op
    /\ monPc' = "pool_size"
    /\ status' = EmptyStatus
    /\ monResult' = "none"
    /\ monExc' = "none"
    /\ monLogged' = FALSE
    /\ UNCHANGED <<engineVars, poolVars, clientVars, healthVars, schemaVars>>

\* pool.size(): NullPool has no size method and SingletonThreadPool's size is
\* an integer attribute, so the call raises; nothing catches it.
MonReadSizeRaises ==
    /\ monPc = "pool_size"
    /\ pool.kind # "QueuePool"
    /\ monExc' = IF pool.kind = "NullPool" THEN "AttributeError" ELSE "TypeError"
    /\ monResult' = "raised"
    /\ monPc' = "done"
    /\ UNCHANGED <<monOp, status, monLogged, engineVars, poolVars, clientVars, healthVars, schemaVars>>

MonReadSize ==
    /\ monPc = "pool_size"
    /\ pool.kind = "QueuePool"
    /\ status' = [status EXCEPT !.pool_size = PoolSize]
    /\ monPc' = "checked_in"
    /\ UNCHANGED <<monOp, monResult, monExc, monLogged, engineVars, poolVars, clientVars, healthVars, schemaVars>>

MonReadCheckedIn ==
    /\ monPc = "checked_in"
    /\ status' = [status EXCEPT !.checked_in = PoolCheckedIn]
    /\ monPc' = "checked_out"
    /\ UNCHANGED <<monOp, monResult, monExc, monLogged, engineVars, poolVars, clientVars, healthVars, schemaVars>>

MonReadCheckedOut ==
    /\ monPc = "checked_out"
    /\ status' = [status EXCEPT !.checked_out = PoolCheckedOut]
    /\ monPc' = "overflow"
    /\ UNCHANGED <<monOp, monResult, monExc, monLogged, engineVars, poolVars, clientVars, healthVars, schemaVars>>

MonReadOverflow ==
    /\ monPc = "overflow"
    /\ status' = [status EXCEPT !.overflow = PoolOverflow]
    /\ monPc' = "total_connection"
    /\ UNCHANGED <<monOp, monResult, monExc, monLogged, engineVars, poolVars, clientVars, healthVars, schemaVars>>

\* "total_connection": pool.size() + pool.overflow(), read again from the pool.
TotalConnection == PoolSize + PoolOverflow

MonReadTotal ==
    /\ monPc = "total_connection"
    /\ status' = [status EXCEPT !.total_connection = TotalConnection]
    /\ monPc' = "return"
    /\ UNCHANGED <<monOp, monResult, monExc, monLogged, engineVars, poolVars, clientVars, healthVars, schemaVars>>

\* get_pool_status returns the mapping; log_pool_status then logs it.
MonReturn ==
    /\ monPc = "return"
    /\ monResult' = "returned"
    /\ monLogged' = (monOp = "log_pool_status")
    /\ monPc' = "done"
    /\ UNCHANGED <<monOp, status, monExc, engineVars, poolVars, clientVars, healthVars, schemaVars>>

MonOps == {"get_pool_status", "log_pool_status"}

Monitor ==
    \/ \E op \in MonOps : MonCall(op)
    \/ MonReadSizeRaises
    \/ MonReadSize
    \/ MonReadCheckedIn
    \/ MonReadCheckedOut
    \/ MonReadOverflow
    \/ MonReadTotal
    \/ MonReturn

\* ------------------------------------------------------------- get_db
\* A session: "none" before SessionLocal(), then "open"; conn says whether it
\* holds a pool connection; closes counts the calls of close() on it.
NoSession == [state |-> "none", conn |-> FALSE, closes |-> 0]
NewSession == [state |-> "open", conn |-> FALSE, closes |-> 0]

\* Session.close(): the session gives its connection back and is closed.
CloseSession(s) == [state |-> "closed", conn |-> FALSE, closes |-> s.closes + 1]

\* db = SessionLocal(); yield db.  The consumer now holds the session.
GetDbYield(c) ==
    /\ engine.branch # "none"
    /\ cpc[c] \in {"idle", "done"}
    /\ sess' = [sess EXCEPT ![c] = NewSession]
    /\ cpc' = [cpc EXCEPT ![c] = "yielded"]
    /\ cexit' = [cexit EXCEPT ![c] = "none"]
    /\ UNCHANGED <<engineVars, poolVars, monVars, healthVars, schemaVars>>

\* SessionLocal() raises: the generator ends before it yields anything.
GetDbCreateFails(c) ==
    /\ engine.branch # "none"
    /\ cpc[c] \in {"idle", "done"}
    /\ sess' = [sess EXCEPT ![c] = NoSession]
    /\ cpc' = [cpc EXCEPT ![c] = "done"]
    /\ cexit' = [cexit EXCEPT ![c] = "create_failed"]
    /\ UNCHANGED <<engineVars, poolVars, monVars, healthVars, schemaVars>>

\* The consumer runs a statement on the session: the first one checks a
\* connection out of the pool.
ConsumerExecute(c) ==
    /\ cpc[c] = "yielded"
    /\ ~sess[c].conn
    /\ CanCheckout
    /\ Checkout
    /\ sess' = [sess EXCEPT ![c].conn = TRUE]
    /\ UNCHANGED <<engineVars, monVars, cpc, cexit, healthVars, schemaVars>>

\* The ways a consumer leaves the generator: next() after it is done, throw()
\* of the exception its code raised, close() before exhaustion.
ExitKinds == {"normal", "exception", "early"}

\* get_db without try / finally: close() runs only when the consumer resumes
\* the generator normally.
GetDbNoFinally(c, kind) ==
    /\ cpc[c] = "yielded"
    /\ IF kind = "normal"
       THEN /\ sess' = [sess EXCEPT ![c] = CloseSession(sess[c])]
            /\ IF sess[c].conn THEN Checkin ELSE UNCHANGED poolVars
       ELSE UNCHANGED <<sess, poolVars>>
    /\ cpc' = [cpc EXCEPT ![c] = "done"]
    /\ cexit' = [cexit EXCEPT ![c] = kind]
    /\ UNCHANGED <<engineVars, monVars, healthVars, schemaVars>>

\* finally: db.close(), whatever resumed the generator.
GetDbFinally(c, kind) ==
    /\ cpc[c] = "yielded"
    /\ sess' = [sess EXCEPT ![c] = CloseSession(sess[c])]
    /\ IF sess[c].conn THEN Checkin ELSE UNCHANGED poolVars
    /\ cpc' = [cpc EXCEPT ![c] = "done"]
    /\ cexit' = [cexit EXCEPT ![c] = kind]
    /\ UNCHANGED <<engineVars, monVars, healthVars, schemaVars>>

GetDb ==
    \E c \in Clients :
        \/ GetDbYield(c)
        \/ GetDbCreateFails(c)
        \/ ConsumerExecute(c)
        \/ \E kind \in ExitKinds : GetDbFinally(c, kind)

\* ------------------------------------------------ check_db_connection
HealthSteps == {"create", "execute", "close"}

HealthCall ==
    /\ engine.branch # "none"
    /\ hpc \in {"idle", "done"}
    /\ hpc' = "create"
    /\ hsess' = NoSession
    \* the previous call's session is gone; a connection it never gave back
    \* stays checked out until the garbage collector finds it
    /\ orphans' = IF hsess.conn THEN orphans + 1 ELSE orphans
    /\ hresult' = "none"
    /\ hfail' = "none"
    /\ hok' = {}
    /\ hLogged' = FALSE
    /\ UNCHANGED <<hraised, engineVars, poolVars, monVars, clientVars, schemaVars>>

\* db = SessionLocal()
HealthCreate ==
    /\ hpc = "create"
    /\ \/ /\ hsess' = NewSession
          /\ hok' = hok \cup {"create"}
          /\ hpc' = "execute"
          /\ UNCHANGED hfail
       \/ /\ hfail' = "create"
          /\ hpc' = "except"
          /\ UNCHANGED <<hsess, hok>>
    /\ UNCHANGED <<hresult, hraised, hLogged, orphans, engineVars, poolVars, monVars, clientVars, schemaVars>>

\* db.execute("SELECT 1"): it succeeds on a connection checked out of the
\* pool, or raises, before a connection was obtained or after.
HealthExecute ==
    /\ hpc = "execute"
    /\ \/ /\ CanCheckout
          /\ Checkout
          /\ hsess' = [hsess EXCEPT !.conn = TRUE]
          /\ hok' = hok \cup {"execute"}
          /\ hpc' = "close"
          /\ UNCHANGED hfail
       \/ /\ CanCheckout
          /\ Checkout
          /\ hsess' = [hsess EXCEPT !.conn = TRUE]
          /\ hfail' = "execute"
          /\ hpc' = "except"
          /\ UNCHANGED hok
       \/ /\ hfail' = "execute"
          /\ hpc' = "except"
          /\ UNCHANGED <<hsess, hok, poolVars>>
    /\ UNCHANGED <<hresult, hraised, hLogged, orphans, engineVars, monVars, clientVars, schemaVars>>

\* db.close(); return True.  When close() raises the session is not closed.
HealthClose ==
    /\ hpc = "close"
    /\ \/ /\ hsess' = CloseSession(hsess)
          /\ Checkin
          /\ hok' = hok \cup {"close"}
          /\ hresult' = "True"
          /\ hpc' = "done"
          /\ UNCHANGED hfail
       \/ /\ hfail' = "close"
          /\ hsess' = [hsess EXCEPT !.closes = hsess.closes + 1]
          /\ hpc' = "except"
          /\ UNCHANGED <<hok, hresult, poolVars>>
    /\ UNCHANGED <<hraised, hLogged, orphans, engineVars, monVars, clientVars, schemaVars>>

\* The handler logging and raising again instead of returning False.
HealthExceptReraise ==
    /\ hpc = "except"
    /\ hLogged' = TRUE
    /\ hraised' = TRUE
    /\ hpc' = "done"
    /\ UNCHANGED <<hsess, hresult, hfail, hok, orphans, engineVars, poolVars, monVars, clientVars, schemaVars>>

\* except Exception: logger.error(...); return False
HealthExcept ==
    /\ hpc = "except"
    /\ hLogged' = TRUE
    /\ hresult' = "False"
    /\ hpc' = "done"
    /\ UNCHANGED <<hsess, hraised, hfail, hok, orphans, engineVars, poolVars, monVars, clientVars, schemaVars>>

\* The garbage collector finds a connection whose session was dropped without
\* close(); the pool takes it back.
GcReclaim ==
    /\ orphans > 0
    /\ orphans' = orphans - 1
    /\ Checkin
    /\ UNCHANGED <<hpc, hsess, hresult, hraised, hfail, hok, hLogged, engineVars, monVars, clientVars, schemaVars>>

CheckDbConnection ==
    \/ HealthCall
    \/ HealthCreate
    \/ HealthExecute
    \/ HealthClose
    \/ HealthExcept
    \/ GcReclaim

\* ------------------------------------------- init_db, drop_db, reset_db
Tables == 1..NumTables
LibSteps == {"drop_all", "create_all", "connect", "execute"}
MaintOps == {"init_db", "drop_db", "reset_db"}

LOG_DROPPED == "warning: All database tables dropped"
LOG_DROP_FAILED == "error: Failed to drop database tables"
LOG_CREATED == "info: Database tables created successfully"
LOG_TEST_OK == "info: Database connection test successful"
LOG_CREATE_FAILED == "error: Failed to create database tables"

Logged(line) == \E i \in 1..Len(mlog) : mlog[i] = line

\* drop_db and reset_db logging the destructive warning before they act.
EntryLogWarnFirst(op) == IF op = "init_db" THEN << >> ELSE <<LOG_DROPPED>>

\* What a call has logged when its first library call begins: each entry
\* point goes straight into its try block, so nothing.
EntryLog(op) == << >>

\* The first statement of each entry point: reset_db starts in drop_db.
FirstStep(op) == IF op = "init_db" THEN "create_all" ELSE "drop_all"

MaintCall(op) ==
    /\ engine.branch # "none"
    /\ mpc = "idle"
    /\ mop' = op
    /\ mpc' = FirstStep(op)
    /\ mlog' = EntryLog(op)
    /\ mresult' = "none"
    /\ mraised' = "none"
    /\ thrown' = "none"
    /\ calls' = [st \in LibSteps |-> 0]
    /\ okSteps' = {}
    /\ preTables' = dbTables
    /\ created' = {}
    /\ UNCHANGED <<dataVars, engineVars, poolVars, monVars, clientVars, healthVars>>

\* Base.metadata.drop_all(bind=engine): drops the registered tables that
\* exist; when it raises, any part of them may already be gone.
DropAll ==
    /\ mpc = "drop_all"
    /\ calls' = [calls EXCEPT !["drop_all"] = @ + 1]
    /\ \/ /\ dbTables' = dbTables \ registered
          /\ populated' = populated \ registered
          /\ okSteps' = okSteps \cup {"drop_all"}
          /\ mpc' = "drop_warn"
          /\ UNCHANGED thrown
       \/ \E D \in SUBSET (dbTables \cap registered) :
             /\ dbTables' = dbTables \ D
             /\ populated' = populated \ D
             /\ thrown' = "DropError"
             /\ mpc' = "drop_except"
             /\ UNCHANGED okSteps
    /\ UNCHANGED <<registered, mop, mlog, mresult, mraised, preTables, created,
                   engineVars, poolVars, monVars, clientVars, healthVars>>

\* reset_db that returns after drop_db, without init_db.
AfterDropNoInit == "idle"

\* Where control goes when drop_db returns: into init_db under reset_db.
AfterDrop == IF mop = "reset_db" THEN "create_all" ELSE "idle"

\* logger.warning("All database tables dropped"); drop_db returns.
DropWarn ==
    /\ mpc = "drop_warn"
    /\ mlog' = Append(mlog, LOG_DROPPED)
    /\ mpc' = AfterDrop
    /\ mresult' = IF mpc' = "idle" THEN "returned" ELSE mresult
    /\ UNCHANGED <<dataVars, mop, mraised, thrown, calls, okSteps, preTables, created,
                   engineVars, poolVars, monVars, clientVars, healthVars>>

\* drop_db's handler logging the error and returning: reset_db goes on.
DropExceptSwallow ==
    /\ mpc = "drop_except"
    /\ mlog' = Append(mlog, LOG_DROP_FAILED)
    /\ mpc' = AfterDrop
    /\ mresult' = IF mpc' = "idle" THEN "returned" ELSE mresult
    /\ UNCHANGED <<dataVars, mop, mraised, thrown, calls, okSteps, preTables, created,
                   engineVars, poolVars, monVars, clientVars, healthVars>>

\* except Exception as e: logger.error(...); raise.  reset_db has no handler.
DropExcept ==
    /\ mpc = "drop_except"
    /\ mlog' = Append(mlog, LOG_DROP_FAILED)
    /\ mresult' = "raised"
    /\ mraised' = thrown
    /\ mpc' = "idle"
    /\ UNCHANGED <<dataVars, mop, thrown, calls, okSteps, preTables, created,
                   engineVars, poolVars, monVars, clientVars, healthVars>>

\* Base.metadata.create_all(bind=engine): creates the registered tables that
\* are missing; when it raises, any part of them may have been created.
CreateAll ==
    /\ mpc = "create_all"
    /\ calls' = [calls EXCEPT !["create_all"] = @ + 1]
    /\ \/ /\ dbTables' = dbTables \cup registered
          /\ created' = registered \ dbTables
          /\ okSteps' = okSteps \cup {"create_all"}
          /\ mpc' = "log_created"
          /\ UNCHANGED thrown
       \/ \E C \in SUBSET (registered \ dbTables) :
             /\ dbTables' = dbTables \cup C
             /\ created' = C
             /\ thrown' = "CreateError"
             /\ mpc' = "init_except"
             /\ UNCHANGED okSteps
    /\ UNCHANGED <<registered, populated, mop, mlog, mresult, mraised, preTables,
                   engineVars, poolVars, monVars, clientVars, healthVars>>

\* logger.info("Database tables created successfully")
InitLogCreated ==
    /\ mpc = "log_created"
    /\ mlog' = Append(mlog, LOG_CREATED)
    /\ mpc' = "connect"
    /\ UNCHANGED <<dataVars, mop, mresult, mraised, thrown, calls, okSteps, preTables, created,
                   engineVars, poolVars, monVars, clientVars, healthVars>>

\* with engine.connect() as conn: a connection is checked out, or it raises.
InitConnect ==
    /\ mpc = "connect"
    /\ calls' = [calls EXCEPT !["connect"] = @ + 1]
    /\ \/ /\ CanCheckout
          /\ Checkout
          /\ okSteps' = okSteps \cup {"connect"}
          /\ mpc' = "execute"
          /\ UNCHANGED thrown
       \/ /\ thrown' = "ConnectError"
          /\ mpc' = "init_except"
          /\ UNCHANGED <<okSteps, poolVars>>
    /\ UNCHANGED <<dataVars, mop, mlog, mresult, mraised, preTables, created,
                   engineVars, monVars, clientVars, healthVars>>

\* conn.execute("SELECT 1"); the with block gives the connection back both
\* when the statement succeeds and when it raises.
InitExecute ==
    /\ mpc = "execute"
    /\ calls' = [calls EXCEPT !["execute"] = @ + 1]
    /\ Checkin
    /\ \/ /\ okSteps' = okSteps \cup {"execute"}
          /\ mpc' = "log_test"
          /\ UNCHANGED thrown
       \/ /\ thrown' = "ExecuteError"
          /\ mpc' = "init_except"
          /\ UNCHANGED okSteps
    /\ UNCHANGED <<dataVars, mop, mlog, mresult, mraised, preTables, created,
                   engineVars, monVars, clientVars, healthVars>>

\* logger.info("Database connection test successful"); init_db returns.
InitLogTest ==
    /\ mpc = "log_test"
    /\ mlog' = Append(mlog, LOG_TEST_OK)
    /\ mresult' = "returned"
    /\ mpc' = "idle"
    /\ UNCHANGED <<dataVars, mop, mraised, thrown, calls, okSteps, preTables, created,
                   engineVars, poolVars, monVars, clientVars, healthVars>>

\* init_db's handler logging the error and returning normally.
InitExceptSwallow ==
    /\ mpc = "init_except"
    /\ mlog' = Append(mlog, LOG_CREATE_FAILED)
    /\ mresult' = "returned"
    /\ mpc' = "idle"
    /\ UNCHANGED <<dataVars, mop, mraised, thrown, calls, okSteps, preTables, created,
                   engineVars, poolVars, monVars, clientVars, healthVars>>

\* except Exception as e: logger.error(...); raise.  reset_db has no handler.
InitExcept ==
    /\ mpc = "init_except"
    /\ mlog' = Append(mlog, LOG_CREATE_FAILED)
    /\ mresult' = "raised"
    /\ mraised' = thrown
    /\ mpc' = "idle"
    /\ UNCHANGED <<dataVars, mop, thrown, calls, okSteps, preTables, created,
                   engineVars, poolVars, monVars, clientVars, healthVars>>

\* The application writes rows into a table through a session.
Populate(t) ==
    /\ engine.branch # "none"
    /\ t \in dbTables \ populated
    /\ populated' = populated \cup {t}
    /\ UNCHANGED <<registered, dbTables, maintVars,
                   engineVars, poolVars, monVars, clientVars, healthVars>>

Schema ==
    \/ \E op \in MaintOps : MaintCall(op)
    \/ DropAll
    \/ DropWarn
    \/ DropExcept
    \/ CreateAll
    \/ InitLogCreated
    \/ InitConnect
    \/ InitExecute
    \/ InitLogTest
    \/ InitExcept
    \/ \E t \in Tables : Populate(t)

\* ------------------------------------------------------ specifications
IdleMonitor ==
    /\ monPc = "idle" /\ monOp = "none" /\ status = EmptyStatus
    /\ monResult = "none" /\ monExc = "none" /\ monLogged = FALSE

IdleClients ==
    /\ cpc = [c \in Clients |-> "idle"]
    /\ sess = [c \in Clients |-> NoSession]
    /\ cexit = [c \in Clients |-> "none"]

IdleHealth ==
    /\ hpc = "idle" /\ hsess = NoSession /\ hresult = "none" /\ hraised = FALSE
    /\ hfail = "none" /\ hok = {} /\ hLogged = FALSE /\ orphans = 0

IdleMaint ==
    /\ mpc = "idle" /\ mop = "none" /\ mlog = << >> /\ mresult = "none"
    /\ mraised = "none" /\ thrown = "none" /\ calls = [st \in LibSteps |-> 0]
    /\ okSteps = {} /\ preTables = dbTables /\ created = {}

\* The process before the module is imported.
NotImported(us, es) ==
    /\ url \in us
    /\ env \in es
    /\ engine = NoEngine
    /\ pool = [kind |-> "none", size |-> 0, max_overflow |-> 0]
    /\ importLog = "none"
    /\ poolIdle = 0
    /\ poolOverflow = 0

\* The process once the module is imported.
Imported(us, es) ==
    /\ url \in us
    /\ env \in es
    /\ engine = CreateEngine(url, env)
    /\ pool \in PoolsOf(engine)
    /\ importLog = "logged"
    /\ poolIdle = 0
    /\ poolOverflow = 0 - pool.size

NoData == registered = {} /\ dbTables = {} /\ populated = {}

AnyData ==
    /\ registered \in SUBSET Tables
    /\ dbTables \in SUBSET Tables
    /\ populated \in SUBSET dbTables

\* The whole module, from before its import.
Init ==
    /\ NotImported(Urls, {DefaultEnv} \cup SmallEnvs)
    /\ IdleMonitor /\ IdleClients /\ IdleHealth /\ AnyData /\ IdleMaint

Next == ImportModule \/ Monitor \/ GetDb \/ CheckDbConnection \/ Schema

Spec == Init /\ [][Next]_vars

\* Engine construction for every URL, and the monitor on the new engine.
InitEngine ==
    /\ NotImported(Urls, {DefaultEnv})
    /\ IdleMonitor /\ IdleClients /\ IdleHealth /\ NoData /\ IdleMaint

NextEngine == ImportModule \/ Monitor

SpecEngine == InitEngine /\ [][NextEngine]_vars

\* Sessions and health checks sharing one pooled engine.
POSTGRES_URL == <<"postgres", "ql">>

InitSession ==
    /\ Imported({POSTGRES_URL}, SmallEnvs)
    /\ IdleMonitor /\ IdleClients /\ IdleHealth /\ NoData /\ IdleMaint

MonitorPooled ==
    \/ MonCall("get_pool_status")
    \/ MonReadSize
    \/ MonReadCheckedIn
    \/ MonReadCheckedOut
    \/ MonReadOverflow
    \/ MonReadTotal
    \/ MonReturn

NextSession == GetDb \/ CheckDbConnection

SpecSession == InitSession /\ [][NextSession]_vars

\* The monitor reading the pool while sessions check connections out and in.
NextPool == GetDb \/ MonitorPooled

SpecPool == InitSession /\ [][NextPool]_vars

\* The schema helpers on the default engine.
InitSchema ==
    /\ Imported({DEFAULT_URL}, {DefaultEnv})
    /\ IdleMonitor /\ IdleClients /\ IdleHealth /\ AnyData /\ IdleMaint

NextSchema == Schema

SpecSchema == InitSchema /\ [][NextSchema]_vars

\* =============================================================== claims

\* C1: every session get_db has yielded is closed exactly once when the
\* consumer has left the generator, by normal completion, by an exception or
\* by early termination; while the consumer holds it, it has not been closed,
\* and it is never closed twice.
C1_ClosedExactlyOnce ==
    \A c \in Clients :
        /\ sess[c].closes <= 1
        /\ cpc[c] = "yielded" => sess[c].state = "open" /\ sess[c].closes = 0
        /\ (cpc[c] = "done" /\ cexit[c] \in ExitKinds) =>
              /\ sess[c].state = "closed"
              /\ sess[c].closes = 1
              /\ ~sess[c].conn

\* One consumer left by an exception and another by early termination, each
\* while its session held a connection, and both sessions are closed.
C1_Witness ==
    \E c, d \in Clients :
        /\ cpc[c] = "done" /\ cexit[c] = "exception" /\ sess[c].closes = 1
        /\ cpc[d] = "done" /\ cexit[d] = "early" /\ sess[d].closes = 1
        /\ poolIdle > 0

\* C2 as stated: check_db_connection never raises, returns True when session
\* creation and the liveness query both succeeded, and returns False when
\* creating, executing or closing failed.
C2_Original ==
    /\ ~hraised
    /\ hpc = "done" =>
          /\ {"create", "execute"} \subseteq hok => hresult = "True"
          /\ hfail # "none" => hresult = "False"

\* C2 amended: check_db_connection never raises, returns True when session
\* creation, the liveness query and the closing of the session all succeeded,
\* and returns False when creating, executing or closing failed.
C2_Amended ==
    /\ ~hraised
    /\ hpc = "done" =>
          /\ hresult \in {"True", "False"}
          /\ HealthSteps \subseteq hok => hresult = "True"
          /\ hfail # "none" => hresult = "False" /\ hLogged

\* A check whose session was created and whose query succeeded, and whose
\* close() then failed, has returned False.
C2_Witness ==
    /\ hpc = "done"
    /\ hfail = "close"
    /\ {"create", "execute"} \subseteq hok
    /\ hresult = "False"

\* C3: when check_db_connection has returned, the session it opened is closed.
C3_SessionClosedOnReturn ==
    hpc = "done" => hsess.state # "open"

PoolKeywords == {"poolclass", "pool_size", "max_overflow", "pool_timeout", "pool_recycle"}

C5_BranchSelection ==
    engine.branch # "none" =>
        LET sup == Contains(url, MARKER_SUPABASE)
            pg  == Contains(url, MARKER_POSTGRESQL)
        IN  /\ engine.url = url
            /\ sup =>
                  /\ engine.branch = "supabase"
                  /\ PoolKeywords \subseteq engine.kwargs
                  /\ engine.poolclass = "QueuePool"
                  /\ engine.connect_args = {<<"sslmode", "require">>, <<"connect_timeout", "10">>}
                  /\ engine.pool_pre_ping
            /\ (~sup /\ pg) =>
                  /\ engine.branch = "postgresql"
                  /\ PoolKeywords \subseteq engine.kwargs
                  /\ engine.poolclass = "QueuePool"
                  /\ engine.connect_args = {}
                  /\ "connect_args" \notin engine.kwargs
                  /\ engine.pool_pre_ping
            /\ (~sup /\ ~pg) =>
                  /\ engine.branch = "sqlite"
                  /\ PoolKeywords \cap engine.kwargs = {}
                  /\ engine.connect_args = {<<"check_same_thread", "False">>}
                  /\ ~engine.pool_pre_ping
                  /\ "pool_pre_ping" \notin engine.kwargs
            /\ (engine.branch \in {"supabase", "postgresql"}) =>
                  /\ engine.pool_size = env.pool_size
                  /\ engine.max_overflow = env.max_overflow
                  /\ pool.kind = "QueuePool"

\* A URL that holds both markers has given the supabase engine.
C5_Witness ==
    /\ engine.branch = "supabase"
    /\ Contains(url, MARKER_POSTGRESQL)
    /\ ~Contains(url, MARKER_POOLER)

\* C6: on a pooled engine the mapping get_pool_status returns satisfies
\* checked_in + checked_out <= pool_size + overflow and
\* total_connection = pool_size + overflow, whatever the concurrent callers do.
C6_StatusConsistent ==
    (pool.kind = "QueuePool" /\ monResult = "returned") =>
        /\ status.checked_in + status.checked_out <= status.pool_size + status.overflow
        /\ status.total_connection = status.pool_size + status.overflow

\* C7: on the fallback engine get_pool_status and log_pool_status complete
\* without raising and return only zeroed values.
C7_FallbackNoOp ==
    (engine.branch = "sqlite" /\ monPc = "done") =>
        /\ monResult = "returned"
        /\ status = EmptyStatus

\* C8 as stated: no table is dropped in a state where the destructive warning
\* has not yet been logged.
C8_Original ==
    [][(dbTables' # dbTables /\ dbTables' \subseteq dbTables) => Logged(LOG_DROPPED)]_vars

\* C8 amended: the destructive warning is logged only after drop_all has
\* dropped the tables: it is logged in a state where drop_all has succeeded
\* and no registered table exists, and it is never logged when the drop failed.
C8_Amended ==
    [][/\ Logged(LOG_DROPPED)' => "drop_all" \in okSteps'
       /\ (Logged(LOG_DROPPED)' /\ ~Logged(LOG_DROPPED)) =>
             /\ "drop_all" \in okSteps
             /\ dbTables \cap registered = {}
             /\ thrown = "none"]_vars

\* drop_db has dropped tables that existed and then logged the warning.
C8_Witness ==
    /\ Logged(LOG_DROPPED)
    /\ preTables \cap registered # {}
    /\ mop = "drop_db" /\ mresult = "returned"

\* C9: reset_db runs drop_db and then init_db; init_db starts only after
\* drop_db returned normally; when drop_db raises the exception leaves reset_db
\* and init_db is never run; when init_db raises after the drop the exception
\* leaves reset_db and the tables stay as the drop and the partial creation
\* left them.
InitPcs == {"create_all", "log_created", "connect", "execute", "log_test", "init_except"}

C9_ResetOrder ==
    mop = "reset_db" =>
        /\ (mpc \in InitPcs \/ calls["create_all"] > 0) =>
              /\ "drop_all" \in okSteps
              /\ Logged(LOG_DROPPED)
              /\ calls["drop_all"] = 1
        /\ thrown = "DropError" =>
              /\ mpc \notin InitPcs
              /\ calls["create_all"] = 0 /\ calls["connect"] = 0 /\ calls["execute"] = 0
              /\ mpc = "idle" => mresult = "raised" /\ mraised = "DropError"
        /\ (mpc = "idle" /\ thrown \in {"CreateError", "ConnectError", "ExecuteError"}) =>
              /\ mresult = "raised"
              /\ mraised = thrown
              /\ dbTables = (preTables \ registered) \cup created
        /\ mresult = "returned" => thrown = "none" /\ calls["create_all"] = 1

\* reset_db has raised out of create_all after the drop: tables that existed
\* before the call are gone.
C9_Witness ==
    /\ mop = "reset_db" /\ mpc = "idle"
    /\ mresult = "raised" /\ mraised = "CreateError"
    /\ preTables \cap registered # {}
    /\ ~(preTables \subseteq dbTables)

\* C10: init_db returns normally only when create_all and the liveness query
\* succeeded, and the query is attempted only after create_all succeeded;
\* drop_db returns normally only when drop_all succeeded; in every other case
\* the error is logged and the same exception is raised to the caller; no
\* library call is attempted twice.
C10_NoSwallow ==
    /\ (mresult = "returned" /\ mop \in {"init_db", "reset_db"}) =>
          {"create_all", "connect", "execute"} \subseteq okSteps
    /\ (calls["connect"] > 0 \/ calls["execute"] > 0) => "create_all" \in okSteps
    /\ (mresult = "returned" /\ mop \in {"drop_db", "reset_db"}) => "drop_all" \in okSteps
    /\ (mpc = "idle" /\ thrown # "none") =>
          /\ mresult = "raised"
          /\ mraised = thrown
          /\ IF thrown = "DropError" THEN Logged(LOG_DROP_FAILED) ELSE Logged(LOG_CREATE_FAILED)
    /\ \A st \in LibSteps : calls[st] <= 1

\* init_db has created the tables, failed in the liveness query and raised
\* that error.
C10_Witness ==
    /\ mop = "init_db" /\ mpc = "idle"
    /\ "create_all" \in okSteps
    /\ mresult = "raised" /\ mraised = "ExecuteError"
    /\ Logged(LOG_CREATE_FAILED)

====
